---- MODULE Spec2Model ----
(***************************************************************************)
(* Monitor enumeration and pointer resolution of druid-shell, for the      *)
(* macOS, Windows and GTK backends (backend/{mac,windows,gtk}/screen.rs).  *)
(* Coordinates are f64 in the source; the model uses integers, on which    *)
(* every operation of the code (+, -, min, max, <=) is exact.              *)
(***************************************************************************)
EXTENDS Integers, Sequences, FiniteSets

VARIABLES
    screens,          \* mac: [NSScreen screens], each with its frame and visibleFrame (NSRect)
    mouse_location,   \* mac: [NSEvent mouseLocation], the native pointer location
    pc,               \* mac: position inside get_monitors: "idle", "loop", "done"
    idx,              \* mac: loop index of get_monitors
    monitors_build,   \* mac: Vec<(Rect, Rect)> built by the loop
    total_rect,       \* mac: running union of the frames
    max_y,            \* mac: the max_y argument of the last transform_coords call
    tc_monitors,      \* transform_coords called directly: its monitors_build argument
    tc_max_y,         \* transform_coords called directly: its max_y argument
    hmonitors,        \* windows: the native monitors EnumDisplayMonitors walks
    displays,         \* gtk: DisplayManager::list_displays(), each a sequence of monitor slots
    gtk_initialized,  \* gtk: gtk::is_initialized()
    gtk_can_init,     \* gtk: whether gtk::init() succeeds
    ret,              \* value returned by the last call, with what the call read natively
    quitting,         \* application: State.quitting, shared by every clone through the Rc
    borrowed,         \* application: whether the RefCell<State> is mutably borrowed
    quit_pc,          \* application: position inside the quit() that holds the borrow
    holder,           \* application: number of the quit() call that holds the borrow, 0 if none
    win_i,            \* application: loop index of quit() over the windows
    ns_windows,       \* application: [ns_app windows] count
    callers,          \* application: the clone that made each quit() call so far, in order
    close_requests,   \* application: close requests issued, each with its call and window
    stop_requests,    \* application: the calls that sent stop: to ns_app
    warnings          \* application: the calls that logged "already borrowed"

vars == <<screens, mouse_location, pc, idx, monitors_build, total_rect, max_y, tc_monitors, tc_max_y,
          hmonitors, displays, gtk_initialized, gtk_can_init, ret,
          quitting, borrowed, quit_pc, holder, win_i, ns_windows, callers, close_requests,
          stop_requests, warnings>>

app_vars == <<quitting, borrowed, quit_pc, holder, win_i, ns_windows, callers, close_requests,
              stop_requests, warnings>>

----------------------------------------------------------------------------
(* Bounds and coordinate grids *)

MaxScreens == 2
MaxLen == 2
MaxDisplays == 2
MaxWindows == 2
MaxQuitCalls == 3
MaxClones == 2
Step == 100

Min(a, b) == IF a <= b THEN a ELSE b
Max(a, b) == IF a >= b THEN a ELSE b

SeqsUpTo(S, n) == UNION {[1..k -> S] : k \in 0..n}

----------------------------------------------------------------------------
(* kurbo::Rect, kurbo::Point and screen::Monitor as the backends use them *)

RectNew(x0, y0, x1, y1) == [x0 |-> x0, y0 |-> y0, x1 |-> x1, y1 |-> y1]

RectZERO == RectNew(0, 0, 0, 0)

\* Rect::from_origin_size: the rectangle through origin and origin + size,
\* with non-negative width and height
RectFromOriginSize(x, y, w, h) ==
    RectNew(Min(x, x + w), Min(y, y + h), Max(x, x + w), Max(y, y + h))

RectUnion(a, b) ==
    RectNew(Min(a.x0, b.x0), Min(a.y0, b.y0), Max(a.x1, b.x1), Max(a.y1, b.y1))

RectHeight(r) == r.y1 - r.y0

PointNew(x, y) == [x |-> x, y |-> y]

PointZERO == PointNew(0, 0)

MonitorNew(primary, rect, work_rect) ==
    [primary |-> primary, rect |-> rect, work_rect |-> work_rect]

\* Monitor::virtual_rect
VirtualRect(monitor) == monitor.rect

\* the value every backend returns when it cannot resolve the pointer
FallbackMonitor == MonitorNew(FALSE, RectZERO, RectZERO)

----------------------------------------------------------------------------
(* Returned values.  kind: "none" (no call yet / call in progress),       *)
(* "monitors" (get_monitors or transform_coords), "mouse"                  *)
(* (get_mouse_position), "panic" (the call unwound).  raw is the native    *)
(* pointer location the call read; obs is what the native calls answered.  *)

NoObs == [enum_ok |-> TRUE, ncalled |-> 0, init_ok |-> TRUE, cursor_ok |-> TRUE,
          found |-> TRUE, chain |-> "ok"]

RetNone == [kind |-> "none", monitors |-> <<>>, point |-> PointZERO,
            monitor |-> FallbackMonitor, raw |-> PointZERO, obs |-> NoObs]

RetMonitors(ms, obs) == [RetNone EXCEPT !.kind = "monitors", !.monitors = ms, !.obs = obs]

RetMouse(point, monitor, raw, obs) ==
    [RetNone EXCEPT !.kind = "mouse", !.point = point, !.monitor = monitor,
                    !.raw = raw, !.obs = obs]

RetPanic(obs) == [RetNone EXCEPT !.kind = "panic", !.obs = obs]

----------------------------------------------------------------------------
(* macOS: transform_coords *)

\* variant with a defect: the edges are mirrored about max_y without the height correction
fix_rect_mirrored(frame, my) ==
    RectNew(frame.x0, my - frame.y0, frame.x1, my - frame.y1)

\* variant with a defect: the rectangle is shifted by max_y, not flipped
fix_rect_shifted(frame, my) ==
    RectNew(frame.x0, frame.y0 - my, frame.x1, frame.y1 - my)

fix_rect(frame, my) ==
    RectNew(frame.x0,
            (my - frame.y0) - RectHeight(frame),
            frame.x1,
            (my - frame.y1) + RectHeight(frame))

transform_coords(mb, my) ==
    [i \in 1..Len(mb) |-> MonitorNew(i = 1, fix_rect(mb[i][1], my), fix_rect(mb[i][2], my))]

----------------------------------------------------------------------------
(* macOS: get_monitors *)

\* variant with a defect: total_rect is overwritten with the frame instead of being united with it
LoopBodyOverwrites(st, screen) ==
    LET frame_r == RectFromOriginSize(screen.frame.x, screen.frame.y,
                                      screen.frame.w, screen.frame.h)
        vis_frame_r == RectFromOriginSize(screen.vis.x, screen.vis.y,
                                          screen.vis.w, screen.vis.h)
    IN  [monitors |-> Append(st.monitors, <<frame_r, vis_frame_r>>),
         total |-> frame_r]

\* one iteration of the loop over screens: push (frame_r, vis_frame_r), grow total_rect
LoopBody(st, screen) ==
    LET frame_r == RectFromOriginSize(screen.frame.x, screen.frame.y,
                                      screen.frame.w, screen.frame.h)
        vis_frame_r == RectFromOriginSize(screen.vis.x, screen.vis.y,
                                          screen.vis.w, screen.vis.h)
    IN  [monitors |-> Append(st.monitors, <<frame_r, vis_frame_r>>),
         total |-> RectUnion(st.total, frame_r)]

LoopStart == [monitors |-> <<>>, total |-> RectZERO]

RECURSIVE LoopUpTo(_, _)
LoopUpTo(scr, n) == IF n = 0 THEN LoopStart ELSE LoopBody(LoopUpTo(scr, n - 1), scr[n])

\* the whole function, as get_mouse_position calls it
get_monitors_mac(scr) ==
    LET st == LoopUpTo(scr, Len(scr))
    IN  transform_coords(st.monitors, st.total.y1)

----------------------------------------------------------------------------
(* macOS: get_mouse_position *)

\* variant with a defect: the edges of the rectangle are excluded
ContainsExclusive(rect, x, y) ==
    /\ rect.x0 < x /\ x < rect.x1
    /\ rect.y0 < y /\ y < rect.y1

Contains(rect, x, y) ==
    /\ rect.x0 <= x /\ x <= rect.x1
    /\ rect.y0 <= y /\ y <= rect.y1

RECURSIVE ScanFrom(_, _, _)
ScanFrom(monitors, point, i) ==
    IF i > Len(monitors)
    THEN RetMouse(PointZERO, FallbackMonitor, point, NoObs)
    ELSE LET rect == VirtualRect(monitors[i])
         IN  IF Contains(rect, point.x, point.y)
             THEN RetMouse(PointNew(point.x, rect.y1 - point.y), monitors[i], point, NoObs)
             ELSE ScanFrom(monitors, point, i + 1)

get_mouse_position_mac(scr, point) == ScanFrom(get_monitors_mac(scr), point, 1)

----------------------------------------------------------------------------
(* macOS environment: the attached screens and the pointer *)

XOrigins == {0, Step}
YOrigins == {-2 * Step, 0, Step}
Heights == {Step, 2 * Step}

NSRect(x, y, w, h) == [x |-> x, y |-> y, w |-> w, h |-> h]

\* visibleFrame: the frame without the menu bar strip at its top
VisibleFrame(f) == NSRect(f.x, f.y, f.w, f.h - Step \div 4)

Frames == {NSRect(x, y, Step, h) : x \in XOrigins, y \in YOrigins, h \in Heights}

NSScreens == {[frame |-> f, vis |-> VisibleFrame(f)] : f \in Frames}

Half == Step \div 2

MouseLocations ==
    {PointNew(i * Half, j * Half) : i \in 1..3, j \in -4..6}

----------------------------------------------------------------------------
(* Values the variables of the other backends hold while a backend is not *)
(* the one being run                                                       *)

MacIdle ==
    /\ screens = <<>> /\ mouse_location = PointZERO /\ pc = "idle" /\ idx = 0 /\ monitors_build = <<>>
    /\ total_rect = RectZERO /\ max_y = 0

TcIdle == tc_monitors = <<>> /\ tc_max_y = 0

WinIdle == hmonitors = <<>>

GtkIdle == displays = <<>> /\ gtk_initialized = FALSE /\ gtk_can_init = FALSE

AppIdle ==
    /\ quitting = FALSE /\ borrowed = FALSE /\ quit_pc = "idle" /\ holder = 0 /\ win_i = 0
    /\ ns_windows = 0 /\ callers = <<>> /\ close_requests = <<>>
    /\ stop_requests = <<>> /\ warnings = <<>>

----------------------------------------------------------------------------
(* macOS specification *)

Init ==
    /\ screens \in SeqsUpTo(NSScreens, MaxScreens)
    /\ mouse_location \in MouseLocations
    /\ pc = "idle" /\ idx = 0 /\ monitors_build = <<>>
    /\ total_rect = RectZERO /\ max_y = 0
    /\ TcIdle /\ WinIdle /\ GtkIdle /\ AppIdle
    /\ ret = RetNone

\* get_monitors, entry: screens is read, the accumulators are created
MacGetMonitorsEnter ==
    /\ pc # "loop"
    /\ pc' = "loop"
    /\ idx' = 0
    /\ monitors_build' = LoopStart.monitors
    /\ total_rect' = LoopStart.total
    /\ ret' = RetNone
    /\ UNCHANGED <<app_vars, screens, mouse_location, max_y, tc_monitors, tc_max_y, hmonitors, displays,
                   gtk_initialized, gtk_can_init>>

\* get_monitors, one iteration of `for idx in 0..screens.count()`
MacGetMonitorsLoop ==
    /\ pc = "loop"
    /\ idx < Len(screens)
    /\ LET st == LoopBody([monitors |-> monitors_build, total |-> total_rect],
                          screens[idx + 1])
       IN  /\ monitors_build' = st.monitors
           /\ total_rect' = st.total
    /\ idx' = idx + 1
    /\ UNCHANGED <<app_vars, screens, mouse_location, pc, max_y, tc_monitors, tc_max_y, hmonitors, displays,
                   gtk_initialized, gtk_can_init, ret>>

\* get_monitors, after the loop: transform_coords(monitors, total_rect.y1)
MacGetMonitorsReturn ==
    /\ pc = "loop"
    /\ idx = Len(screens)
    /\ max_y' = total_rect.y1
    /\ ret' = RetMonitors(transform_coords(monitors_build, total_rect.y1), NoObs)
    /\ pc' = "done"
    /\ UNCHANGED <<app_vars, screens, mouse_location, idx, monitors_build, total_rect, tc_monitors, tc_max_y,
                   hmonitors, displays, gtk_initialized, gtk_can_init>>

\* get_mouse_position: reads NSEvent mouseLocation, enumerates, scans
MacGetMousePosition ==
    /\ pc # "loop"
    /\ ret' = get_mouse_position_mac(screens, mouse_location)
    /\ UNCHANGED <<app_vars, screens, mouse_location, pc, idx, monitors_build, total_rect, max_y, tc_monitors,
                   tc_max_y, hmonitors, displays, gtk_initialized, gtk_can_init>>

Next ==
    \/ MacGetMonitorsEnter
    \/ MacGetMonitorsLoop
    \/ MacGetMonitorsReturn
    \/ MacGetMousePosition

Spec == Init /\ [][Next]_vars

----------------------------------------------------------------------------
(* transform_coords on its own, as the unit tests call it *)

XExtents == {<<0, Step>>, <<Step, 2 * Step>>, <<0, 0>>}
YValues == {-Step, 0, Step, 2 * Step}
YExtents == {<<a, b>> \in YValues \X YValues : a <= b /\ (a >= 0 \/ b <= 0)}

TcRects == {RectNew(xe[1], ye[1], xe[2], ye[2]) : xe \in XExtents, ye \in YExtents}

\* a visible frame for the tests' pair(): the frame itself, or its lower half
TcPairs ==
    {<<r, r>> : r \in TcRects}
        \cup {<<r, RectNew(r.x0, r.y0, r.x1, r.y0 + RectHeight(r) \div 2)>> : r \in TcRects}

TcMaxYs == {0, Step, 2 * Step}

InitTransform ==
    /\ tc_monitors \in SeqsUpTo(TcPairs, MaxLen)
    /\ tc_max_y \in TcMaxYs
    /\ MacIdle /\ WinIdle /\ GtkIdle /\ AppIdle
    /\ ret = RetNone

CallTransformCoords ==
    /\ ret.kind = "none"
    /\ ret' = RetMonitors(transform_coords(tc_monitors, tc_max_y), NoObs)
    /\ UNCHANGED <<app_vars, screens, mouse_location, pc, idx, monitors_build, total_rect, max_y, tc_monitors,
                   tc_max_y, hmonitors, displays, gtk_initialized, gtk_can_init>>

NextTransform == CallTransformCoords

SpecTransform == InitTransform /\ [][NextTransform]_vars

----------------------------------------------------------------------------
(* Windows: monitorenumproc, get_monitors, get_mouse_position *)

MONITORINFOF_PRIMARY == 1

\* MONITORINFO as the code initialises it before GetMonitorInfoW
ZeroInfo == [rcMonitor |-> RectZERO, rcWork |-> RectZERO, dwFlags |-> 0]

\* GetMonitorInfoW(hmonitor, &mut info): fills info on success, leaves it on failure.
\* Handle 0 is the null handle, handle h > 0 is hmons[h].
GetMonitorInfoW(hmons, h) ==
    IF h >= 1 /\ h <= Len(hmons) /\ hmons[h].info_ok
    THEN [rcMonitor |-> hmons[h].rcMonitor, rcWork |-> hmons[h].rcWork,
          dwFlags |-> hmons[h].dwFlags]
    ELSE ZeroInfo

InfoToMonitor(info) ==
    MonitorNew(info.dwFlags = MONITORINFOF_PRIMARY, info.rcMonitor, info.rcWork)

\* the callback: pushes one Monitor whatever GetMonitorInfoW answered
monitorenumproc(hmons, h, vec) == Append(vec, InfoToMonitor(GetMonitorInfoW(hmons, h)))

hmonitor_to_monitor(hmons, h) == InfoToMonitor(GetMonitorInfoW(hmons, h))

\* EnumDisplayMonitors having run the callback for the first n monitors
RECURSIVE EnumCallbacks(_, _)
EnumCallbacks(hmons, n) ==
    IF n = 0 THEN <<>> ELSE monitorenumproc(hmons, n, EnumCallbacks(hmons, n - 1))

\* get_monitors: the vector is returned whether or not EnumDisplayMonitors
\* succeeded.  The callback writes through a pointer derived from a shared
\* reference to a binding that is not `mut`: the writes are undefined
\* behaviour, and a build may return the vector with them (seen) or as it was
\* created (not seen).
get_monitors_win(hmons, ncalled, writes_seen) ==
    IF writes_seen THEN EnumCallbacks(hmons, ncalled) ELSE <<>>

\* MonitorFromPoint(point, MONITOR_DEFAULTTONULL): the monitor whose rectangle
\* holds the point (right and bottom edges excluded), or the null handle
MonitorFromPoint(hmons, point) ==
    LET hit == {h \in 1..Len(hmons) :
                    /\ hmons[h].rcMonitor.x0 <= point.x /\ point.x < hmons[h].rcMonitor.x1
                    /\ hmons[h].rcMonitor.y0 <= point.y /\ point.y < hmons[h].rcMonitor.y1}
    IN  IF hit = {} THEN 0 ELSE CHOOSE h \in hit : \A k \in hit : h <= k

\* get_cursor_position: pnt stays (0, 0) when GetCursorPos fails
get_cursor_position(cursor_ok, cursor) == IF cursor_ok THEN cursor ELSE PointZERO

get_monitor_at_point(hmons, point) == hmonitor_to_monitor(hmons, MonitorFromPoint(hmons, point))

get_mouse_position_win(hmons, cursor_ok, cursor) ==
    LET point == get_cursor_position(cursor_ok, cursor)
        monitor == get_monitor_at_point(hmons, point)
    IN  RetMouse(point, monitor, cursor,
                 [NoObs EXCEPT !.cursor_ok = cursor_ok,
                               !.found = (MonitorFromPoint(hmons, point) # 0)])

\* Windows environment: the primary monitor has its top-left corner at the
\* origin and carries the primary flag; any info query may fail
WinRect(x) == RectNew(x, 0, x + Step, Step)

WinWork(r) == RectNew(r.x0, r.y0, r.x1, r.y1 - Step \div 4)

WinNative ==
    {[rcMonitor |-> WinRect(x), rcWork |-> WinWork(WinRect(x)),
      dwFlags |-> (IF x = 0 THEN MONITORINFOF_PRIMARY ELSE 0), info_ok |-> ok] :
        x \in {-Step, 0, Step}, ok \in BOOLEAN}

WinTopologies ==
    {hs \in SeqsUpTo(WinNative, MaxScreens) :
        /\ hs # <<>> => Cardinality({h \in 1..Len(hs) : hs[h].rcMonitor.x0 = 0}) = 1
        /\ \A h, k \in 1..Len(hs) : h # k => hs[h].rcMonitor # hs[k].rcMonitor}

WinCursors == {PointNew(i * Half, Half) : i \in -1..3} \cup {PointNew(Half, 3 * Half)}

InitWindows ==
    /\ hmonitors \in WinTopologies
    /\ MacIdle /\ TcIdle /\ GtkIdle /\ AppIdle
    /\ ret = RetNone

WinGetMonitors ==
    /\ \E enum_ok \in BOOLEAN, ncalled \in 0..Len(hmonitors), writes_seen \in BOOLEAN :
          /\ enum_ok => ncalled = Len(hmonitors)
          /\ ret' = RetMonitors(get_monitors_win(hmonitors, ncalled, writes_seen),
                                [NoObs EXCEPT !.enum_ok = enum_ok, !.ncalled = ncalled])
    /\ UNCHANGED <<app_vars, screens, mouse_location, pc, idx, monitors_build, total_rect, max_y,
                   tc_monitors, tc_max_y, hmonitors, displays, gtk_initialized,
                   gtk_can_init>>

WinGetMousePosition ==
    /\ \E cursor_ok \in BOOLEAN, cursor \in WinCursors :
          ret' = get_mouse_position_win(hmonitors, cursor_ok, cursor)
    /\ UNCHANGED <<app_vars, screens, mouse_location, pc, idx, monitors_build, total_rect, max_y,
                   tc_monitors, tc_max_y, hmonitors, displays, gtk_initialized,
                   gtk_can_init>>

NextWindows ==
    \/ WinGetMonitors
    \/ WinGetMousePosition

SpecWindows == InitWindows /\ [][NextWindows]_vars

----------------------------------------------------------------------------
(* GTK: translate_gdk_monitor, get_monitors, get_mouse_position *)

\* Option values
None == [some |-> FALSE]
Some(v) == [some |-> TRUE, value |-> v]

translate_gdk_rectangle(r) == RectFromOriginSize(r.x, r.y, r.width, r.height)

translate_gdk_monitor(mon) ==
    LET area == translate_gdk_rectangle(mon.geometry)
    IN  MonitorNew(mon.is_primary,
                   area,
                   IF mon.workarea.some
                   THEN translate_gdk_rectangle(mon.workarea.value)
                   ELSE area)

\* (0..display.n_monitors()).filter_map(|i| display.monitor(i).map(translate_gdk_monitor))
RECURSIVE DisplayMonitors(_, _)
DisplayMonitors(display, n) ==
    IF n = 0 THEN <<>>
    ELSE LET before == DisplayMonitors(display, n - 1)
         IN  IF display[n].some
             THEN Append(before, translate_gdk_monitor(display[n].value))
             ELSE before

\* list_displays().iter().flat_map(...).collect()
RECURSIVE FlatMapDisplays(_, _)
FlatMapDisplays(ds, n) ==
    IF n = 0 THEN <<>>
    ELSE FlatMapDisplays(ds, n - 1) \o DisplayMonitors(ds[n], Len(ds[n]))

\* `if !gtk::is_initialized() { if let Err(err) = gtk::init() { return ... } }`
GtkInitFails(initialized, can_init) == ~initialized /\ ~can_init

get_monitors_gtk(ds, initialized, can_init) ==
    IF GtkInitFails(initialized, can_init)
    THEN <<>>
    ELSE FlatMapDisplays(ds, Len(ds))

\* get_mouse_position: chain names the first Option of the unwrap chain that
\* is None ("ok" when none is); at_point is the monitor monitor_at_point gave
get_mouse_position_gtk(initialized, can_init, chain, position, at_point) ==
    LET obs == [NoObs EXCEPT !.init_ok = ~GtkInitFails(initialized, can_init),
                             !.chain = chain]
    IN  IF GtkInitFails(initialized, can_init)
        THEN RetMouse(PointZERO, FallbackMonitor, position, obs)
        ELSE IF chain # "ok"
        THEN RetPanic(obs)
        ELSE RetMouse(PointNew(position.x, position.y),
                      translate_gdk_monitor(at_point), position, obs)

\* GTK environment
GdkRectangle(x, y, w, h) == [x |-> x, y |-> y, width |-> w, height |-> h]

GdkGeometries == {GdkRectangle(x, 0, Step, Step) : x \in {0, Step}}

GdkWorkareas(g) ==
    {None, Some(GdkRectangle(g.x, g.y + Step \div 4, g.width, g.height - Step \div 4))}

GdkMonitors ==
    UNION {{[geometry |-> g, is_primary |-> p, workarea |-> w] :
                p \in BOOLEAN, w \in GdkWorkareas(g)} : g \in GdkGeometries}

\* stands for the monitor argument on the paths that never reach monitor_at_point
NoGdkMonitor == [geometry |-> GdkRectangle(0, 0, 0, 0), is_primary |-> FALSE, workarea |-> None]

GdkSlots == {None} \cup {Some(m) : m \in GdkMonitors}

RECURSIVE SlotsOf(_, _)
SlotsOf(ds, n) == IF n = 0 THEN <<>> ELSE SlotsOf(ds, n - 1) \o ds[n]

\* the platform flags at most one monitor as primary, and no two monitors
\* share a geometry
GdkTopologies ==
    {ds \in SeqsUpTo(SeqsUpTo(GdkSlots, MaxScreens), MaxDisplays) :
        LET slots == SlotsOf(ds, Len(ds))
            mons == {i \in 1..Len(slots) : slots[i].some}
        IN  /\ Cardinality({i \in mons : slots[i].value.is_primary}) <= 1
            /\ \A i, j \in mons :
                  i # j => slots[i].value.geometry # slots[j].value.geometry}

GdkPositions == {PointNew(Half, Half), PointNew(3 * Half, Half)}

UnwrapChain == {"ok", "no_default_display", "no_default_seat", "no_pointer",
                "no_monitor_at_point"}

InitGtk ==
    /\ displays \in GdkTopologies
    /\ gtk_initialized = FALSE
    /\ gtk_can_init \in BOOLEAN
    /\ MacIdle /\ TcIdle /\ WinIdle /\ AppIdle
    /\ ret = RetNone

GtkGetMonitors ==
    /\ ret' = RetMonitors(get_monitors_gtk(displays, gtk_initialized, gtk_can_init),
                          [NoObs EXCEPT !.init_ok = ~GtkInitFails(gtk_initialized, gtk_can_init)])
    /\ gtk_initialized' = (gtk_initialized \/ gtk_can_init)
    /\ UNCHANGED <<app_vars, screens, mouse_location, pc, idx, monitors_build, total_rect, max_y,
                   tc_monitors, tc_max_y, hmonitors, displays, gtk_can_init>>

GtkGetMousePosition ==
    /\ \E chain \in UnwrapChain :
          IF chain = "ok"
          THEN \E position \in GdkPositions, d \in 1..Len(displays) :
                  \E i \in 1..Len(displays[d]) :
                      /\ displays[d][i].some
                      /\ ret' = get_mouse_position_gtk(gtk_initialized, gtk_can_init, chain,
                                                       position, displays[d][i].value)
          ELSE ret' = get_mouse_position_gtk(gtk_initialized, gtk_can_init, chain,
                                             PointZERO, NoGdkMonitor)
    /\ gtk_initialized' = (gtk_initialized \/ gtk_can_init)
    /\ UNCHANGED <<app_vars, screens, mouse_location, pc, idx, monitors_build, total_rect, max_y,
                   tc_monitors, tc_max_y, hmonitors, displays, gtk_can_init>>

NextGtk ==
    \/ GtkGetMonitors
    \/ GtkGetMousePosition

SpecGtk == InitGtk /\ [][NextGtk]_vars

----------------------------------------------------------------------------
(* Helpers of the properties *)

PrimaryCount(ms) == Cardinality({i \in 1..Len(ms) : ms[i].primary})

\* native rectangle of the i-th screen: origin (x, y), size (w, h), Y up
NativeRect(i) ==
    LET f == screens[i].frame IN RectNew(f.x, f.y, f.x + f.w, f.y + f.h)

NativeHolds(i, p) ==
    LET r == NativeRect(i)
    IN  r.x0 <= p.x /\ p.x <= r.x1 /\ r.y0 <= p.y /\ p.y <= r.y1

\* no two screens share interior points
NonOverlapping ==
    \A i, j \in 1..Len(screens) :
        i # j => LET a == NativeRect(i)
                     b == NativeRect(j)
                 IN  a.x1 <= b.x0 \/ b.x1 <= a.x0 \/ a.y1 <= b.y0 \/ b.y1 <= a.y0

\* macOS puts the origin at the bottom-left corner of the first screen
PrimaryAtOrigin ==
    screens # <<>> /\ screens[1].frame.x = 0 /\ screens[1].frame.y = 0

IsFallback(r) == r.kind = "mouse" /\ r.point = PointZERO /\ r.monitor = FallbackMonitor

----------------------------------------------------------------------------
(* C1. Primary invariant: a non-empty result of get_monitors() holds       *)
(* exactly one Monitor with is_primary = true, on every backend and for    *)
(* every native topology.                                                  *)
C1_PrimaryInvariant ==
    (ret.kind = "monitors" /\ ret.monitors # <<>>) => PrimaryCount(ret.monitors) = 1

----------------------------------------------------------------------------
(* Rectangles of the unit tests and the flip as the specification words it *)
ClaimedFlip(r, my) ==
    RectNew(r.x0, my - r.y0 - (r.y1 - r.y0), r.x1, my - r.y1 + (r.y1 - r.y0))

SameShape(r, q) ==
    /\ q.x0 = r.x0 /\ q.x1 = r.x1
    /\ q.x1 - q.x0 = r.x1 - r.x0
    /\ q.y1 - q.y0 = r.y1 - r.y0
    /\ q.y0 <= q.y1

TestRect1 == RectNew(0, 0, Step, Step)
TestRectRight == RectNew(Step, 0, 2 * Step, Step)
TestRectUp == RectNew(0, Step, 0, 2 * Step)

(* C2. Flip correctness: transform_coords maps each native rectangle       *)
(* (x0,y0,x1,y1) of height h to (x0, max_y - y0 - h, x1, max_y - y1 + h),  *)
(* the frame and the visible frame alike; x-extent, width and height are   *)
(* kept and y0' <= y1'.  (0,0,100,100) with max_y = 100 comes back         *)
(* unchanged, and two monitors at the same native Y keep their left/right  *)
(* positions.                                                              *)
C2_FlipCorrectness ==
    ret.kind = "monitors" =>
        /\ Len(ret.monitors) = Len(tc_monitors)
        /\ \A i \in 1..Len(tc_monitors) :
              /\ ret.monitors[i].rect = ClaimedFlip(tc_monitors[i][1], tc_max_y)
              /\ ret.monitors[i].work_rect = ClaimedFlip(tc_monitors[i][2], tc_max_y)
              /\ SameShape(tc_monitors[i][1], ret.monitors[i].rect)
              /\ SameShape(tc_monitors[i][2], ret.monitors[i].work_rect)
        /\ (tc_monitors = <<(<<TestRect1, TestRect1>>)>> /\ tc_max_y = Step)
              => ret.monitors = <<MonitorNew(TRUE, TestRect1, TestRect1)>>
        /\ \A i, j \in 1..Len(tc_monitors) :
              (tc_monitors[i][1].y0 = tc_monitors[j][1].y0
                  /\ tc_monitors[i][1].y1 = tc_monitors[j][1].y1
                  /\ tc_monitors[i][1].x1 <= tc_monitors[j][1].x0)
              => /\ ret.monitors[i].rect.x1 <= ret.monitors[j].rect.x0
                 /\ ret.monitors[i].rect.y0 = ret.monitors[j].rect.y0
                 /\ ret.monitors[i].rect.y1 = ret.monitors[j].rect.y1

\* test_transform_coords_2_right has run
C2_Witness ==
    /\ tc_monitors = <<(<<TestRect1, TestRect1>>), (<<TestRectRight, TestRectRight>>)>>
    /\ tc_max_y = Step
    /\ ret.kind = "monitors"
    /\ ret.monitors = <<MonitorNew(TRUE, TestRect1, TestRect1),
                        MonitorNew(FALSE, TestRectRight, TestRectRight)>>

----------------------------------------------------------------------------
(* C3. Vertical stacking is preserved under the flip: if A is natively     *)
(* above B (A.y0 >= B.y1, Y up), A is above B in the result                *)
(* (A'.y1 <= B'.y0, Y down); with max_y the height of a primary at the     *)
(* origin, a monitor natively above the primary gets unified y1 <= 0, and  *)
(* native (0,100,0,200) with max_y = 100 becomes (0,-100,0,0).             *)
C3_StackingPreserved ==
    ret.kind = "monitors" =>
        /\ \A a, b \in 1..Len(tc_monitors) :
              tc_monitors[a][1].y0 >= tc_monitors[b][1].y1
                  => ret.monitors[a].rect.y1 <= ret.monitors[b].rect.y0
        /\ \A a \in 1..Len(tc_monitors) :
              (/\ tc_monitors[1][1].y0 = 0
               /\ tc_max_y = tc_monitors[1][1].y1 - tc_monitors[1][1].y0
               /\ tc_monitors[a][1].y0 >= tc_monitors[1][1].y1)
                  => ret.monitors[a].rect.y1 <= 0
        /\ \A a \in 1..Len(tc_monitors) :
              (tc_monitors[a][1] = TestRectUp /\ tc_max_y = Step)
                  => ret.monitors[a].rect = RectNew(0, -Step, 0, 0)

\* test_transform_coords_2_up has run
C3_Witness ==
    /\ tc_monitors = <<(<<TestRect1, TestRect1>>), (<<TestRectUp, TestRectUp>>)>>
    /\ tc_max_y = Step
    /\ ret.kind = "monitors"
    /\ ret.monitors[2].rect.y1 <= ret.monitors[1].rect.y0
    /\ ret.monitors[2].rect = RectNew(0, -Step, 0, 0)

----------------------------------------------------------------------------
(* C4. Containment correctness: for non-overlapping screens and a raw      *)
(* pointer inside some screen's native rectangle, the macOS                *)
(* get_mouse_position() returns the Monitor of a screen whose native       *)
(* rectangle holds the raw pointer.                                        *)
C4_NativeContainment ==
    (/\ ret.kind = "mouse"
     /\ PrimaryAtOrigin
     /\ NonOverlapping
     /\ \E i \in 1..Len(screens) : NativeHolds(i, ret.raw))
        => \E i \in 1..Len(screens) :
              /\ NativeHolds(i, ret.raw)
              /\ ret.monitor = get_monitors_mac(screens)[i]

----------------------------------------------------------------------------
(* C5. The point the macOS get_mouse_position() returns lies within the    *)
(* full_area of the monitor returned with it, whenever the result is not   *)
(* the fallback.                                                           *)
C5_PointWithinMonitor ==
    (ret.kind = "mouse" /\ PrimaryAtOrigin /\ ~IsFallback(ret))
        => /\ ret.monitor.rect.x0 <= ret.point.x /\ ret.point.x <= ret.monitor.rect.x1
           /\ ret.monitor.rect.y0 <= ret.point.y /\ ret.point.y <= ret.monitor.rect.y1

----------------------------------------------------------------------------
(* Indices of the monitors whose full_area inclusively holds the pointer *)
ScanHits ==
    LET ms == get_monitors_mac(screens)
    IN  {i \in 1..Len(ms) :
            /\ ms[i].rect.x0 <= mouse_location.x /\ mouse_location.x <= ms[i].rect.x1
            /\ ms[i].rect.y0 <= mouse_location.y /\ mouse_location.y <= ms[i].rect.y1}

(* C6. Linear scan of the macOS get_mouse_position(): the result is the    *)
(* first monitor in enumeration order whose full_area inclusively holds    *)
(* the tested point, so with overlapping monitors the earlier one wins;    *)
(* the result is exactly (Point::ZERO, Monitor{false, ZERO, ZERO}) if and  *)
(* only if no enumerated monitor holds the point.                          *)
C6_LinearScan ==
    ret.kind = "mouse" =>
        LET ms == get_monitors_mac(screens)
        IN  /\ ret.raw = mouse_location
            /\ IsFallback(ret) <=> ScanHits = {}
            /\ ScanHits # {} =>
                  LET first == CHOOSE i \in ScanHits : \A k \in ScanHits : i <= k
                  IN  /\ ret.monitor = ms[first]
                      /\ ret.point = PointNew(mouse_location.x,
                                              ms[first].rect.y1 - mouse_location.y)

\* two different monitors hold the tested point and the earlier one was returned
C6_Witness ==
    /\ ret.kind = "mouse"
    /\ Cardinality(ScanHits) = 2
    /\ get_monitors_mac(screens)[1] # get_monitors_mac(screens)[2]
    /\ ret.monitor = get_monitors_mac(screens)[1]
    /\ ~IsFallback(ret)

----------------------------------------------------------------------------
(* C7. Graceful degradation: whenever the native top-level enumeration     *)
(* fails (gtk::init errs; EnumDisplayMonitors returns 0, possibly after    *)
(* some callbacks ran), get_monitors() returns the empty sequence.         *)
C7_EnumerationFailureGivesEmpty ==
    (ret.kind = "monitors" /\ (~ret.obs.enum_ok \/ ~ret.obs.init_ok))
        => ret.monitors = <<>>

----------------------------------------------------------------------------
(* GTK monitor slots in native enumeration order *)
NativeSlots == SlotsOf(displays, Len(displays))

(* C8. Per-item query failure keeps the slot: when the top-level           *)
(* enumeration succeeds, get_monitors() returns one entry per natively     *)
(* enumerated monitor, and the entry of a monitor whose info query failed  *)
(* has zero full_area and zero work_area.                                  *)
C8_FailedQueryKeepsSlot ==
    (ret.kind = "monitors" /\ ret.obs.enum_ok /\ ret.obs.init_ok
        /\ screens = <<>> /\ tc_monitors = <<>>)
        => /\ Len(ret.monitors) = Len(NativeSlots) + Len(hmonitors)
           /\ \A i \in 1..Len(NativeSlots) :
                 ~NativeSlots[i].some
                     => /\ ret.monitors[i].rect = RectZERO
                        /\ ret.monitors[i].work_rect = RectZERO
           /\ \A i \in 1..Len(hmonitors) :
                 ~hmonitors[i].info_ok
                     => /\ ret.monitors[i].rect = RectZERO
                        /\ ret.monitors[i].work_rect = RectZERO

----------------------------------------------------------------------------
(* C9. pointer_position() never fails: if the native pointer query or the  *)
(* monitor-at-point query fails, get_mouse_position() returns, and returns *)
(* exactly the fallback (Point (0,0), Monitor{false, ZERO, ZERO}).         *)
C9_PointerQueryFailureGivesFallback ==
    (/\ ret.kind \in {"mouse", "panic"}
     /\ \/ ~ret.obs.init_ok
        \/ ret.obs.chain # "ok"
        \/ ~ret.obs.cursor_ok
        \/ ~ret.obs.found)
        => IsFallback(ret)

----------------------------------------------------------------------------
(* Maximum native y1 of the screens; the same with 0 as a lower limit, over *)
(* the first n screens                                                     *)
MaxNativeY1 ==
    CHOOSE m \in {NativeRect(i).y1 : i \in 1..Len(screens)} :
        \A i \in 1..Len(screens) : NativeRect(i).y1 <= m

ZeroOrMaxY1(n) ==
    CHOOSE m \in {0} \cup {NativeRect(i).y1 : i \in 1..n} :
        /\ m >= 0
        /\ \A i \in 1..n : NativeRect(i).y1 <= m

(* C10, as claimed. Flip axis: in the macOS get_monitors() the max_y       *)
(* passed to transform_coords is the maximum native y1 over all screen     *)
(* frames, for every non-empty set of frames.                              *)
C10_MaxYIsMaxNativeY1 ==
    (pc = "done" /\ screens # <<>>) => max_y = MaxNativeY1

(* C10, as amended. max_y is the y1 of the union of Rect::ZERO with all    *)
(* frames, that is the larger of 0 and the maximum native y1, and equals   *)
(* the maximum native y1 when some frame has y1 >= 0; it is complete after *)
(* the first pass, during which nothing has been flipped, and every        *)
(* rectangle is then flipped about it.                                     *)
C10_FlipAxis ==
    /\ pc = "loop" =>
          /\ ret.kind = "none"
          /\ Len(monitors_build) = idx
          /\ total_rect.y1 = ZeroOrMaxY1(idx)
    /\ pc = "done" =>
          /\ max_y = ZeroOrMaxY1(Len(screens))
          /\ (\E i \in 1..Len(screens) : NativeRect(i).y1 >= 0)
                => max_y = MaxNativeY1
          /\ ret.kind = "monitors" =>
                /\ Len(ret.monitors) = Len(screens)
                /\ \A i \in 1..Len(screens) :
                      /\ ret.monitors[i].rect.y0 = ZeroOrMaxY1(Len(screens)) - NativeRect(i).y1
                      /\ ret.monitors[i].rect.y1 = ZeroOrMaxY1(Len(screens)) - NativeRect(i).y0

\* get_monitors has returned for two screens that both lie below y = 0
C10_Witness ==
    /\ pc = "done"
    /\ ret.kind = "monitors"
    /\ Len(screens) = 2
    /\ \A i \in 1..Len(screens) : NativeRect(i).y1 < 0
    /\ max_y = 0
    /\ max_y # MaxNativeY1

----------------------------------------------------------------------------
----------------------------------------------------------------------------
(* macOS Application: new, clone, quit (backend/mac/application.rs)        *)

\* Application::new: State { quitting: false } behind a fresh Rc<RefCell<_>>
NewState == [quitting |-> FALSE, borrowed |-> FALSE]

\* variant with a defect: the `if !state.quitting` test is missing
quit_branch_unguarded(is_borrowed, is_quitting) ==
    IF is_borrowed THEN "warn" ELSE "quit"

\* which branch of quit() a call takes: try_borrow_mut fails ("warn"), the
\* flag is already set ("nothing"), or the call does the quitting ("quit")
quit_branch(is_borrowed, is_quitting) ==
    IF is_borrowed THEN "warn"
    ELSE IF ~is_quitting THEN "quit"
    ELSE "nothing"

Clones == 1..MaxClones

InitApp ==
    /\ quitting = NewState.quitting
    /\ borrowed = NewState.borrowed
    /\ quit_pc = "idle" /\ holder = 0 /\ win_i = 0
    /\ ns_windows \in 0..MaxWindows
    /\ callers = <<>> /\ close_requests = <<>> /\ stop_requests = <<>> /\ warnings = <<>>
    /\ MacIdle /\ TcIdle /\ WinIdle /\ GtkIdle
    /\ ret = RetNone

\* quit() on a clone while no borrow is held: try_borrow_mut succeeds; the
\* first such call sets the flag and goes on to the windows, holding the
\* borrow; a later one finds the flag set and returns at once
QuitCall(clone) ==
    /\ quit_pc = "idle"
    /\ Len(callers) < MaxQuitCalls
    /\ quit_branch(borrowed, quitting) \in {"quit", "nothing"}
    /\ callers' = Append(callers, clone)
    /\ IF quit_branch(borrowed, quitting) = "quit"
       THEN /\ quitting' = TRUE
            /\ borrowed' = TRUE
            /\ quit_pc' = "windows"
            /\ holder' = Len(callers) + 1
            /\ win_i' = 0
       ELSE UNCHANGED <<quitting, borrowed, quit_pc, holder, win_i>>
    /\ UNCHANGED <<ns_windows, close_requests, stop_requests, warnings,
                   screens, mouse_location, pc, idx, monitors_build, total_rect, max_y,
                   tc_monitors, tc_max_y, hmonitors, displays, gtk_initialized,
                   gtk_can_init, ret>>

\* one iteration of `for i in 0..windows.count()`: close is queued for window i
QuitCloseWindow ==
    /\ quit_pc = "windows"
    /\ win_i < ns_windows
    /\ close_requests' = Append(close_requests, [call |-> holder, window |-> win_i])
    /\ win_i' = win_i + 1
    /\ UNCHANGED <<quitting, borrowed, quit_pc, holder, ns_windows, callers, stop_requests,
                   warnings,
                   screens, mouse_location, pc, idx, monitors_build, total_rect, max_y,
                   tc_monitors, tc_max_y, hmonitors, displays, gtk_initialized,
                   gtk_can_init, ret>>

\* after the loop: stop: is sent, the block ends and the borrow is dropped
QuitStop ==
    /\ quit_pc = "windows"
    /\ win_i = ns_windows
    /\ stop_requests' = Append(stop_requests, holder)
    /\ borrowed' = FALSE
    /\ holder' = 0
    /\ quit_pc' = "idle"
    /\ UNCHANGED <<quitting, win_i, ns_windows, callers, close_requests, warnings,
                   screens, mouse_location, pc, idx, monitors_build, total_rect, max_y,
                   tc_monitors, tc_max_y, hmonitors, displays, gtk_initialized,
                   gtk_can_init, ret>>

\* quit() on a clone from inside the quit() that holds the borrow:
\* try_borrow_mut fails, the call logs a warning and returns
QuitCallWhileBorrowed(clone) ==
    /\ quit_pc = "windows"
    /\ Len(callers) < MaxQuitCalls
    /\ quit_branch(borrowed, quitting) = "warn"
    /\ callers' = Append(callers, clone)
    /\ warnings' = Append(warnings, Len(callers) + 1)
    /\ UNCHANGED <<quitting, borrowed, quit_pc, holder, win_i, ns_windows, close_requests,
                   stop_requests,
                   screens, mouse_location, pc, idx, monitors_build, total_rect, max_y,
                   tc_monitors, tc_max_y, hmonitors, displays, gtk_initialized,
                   gtk_can_init, ret>>

NextApp ==
    \/ \E clone \in Clones : QuitCall(clone)
    \/ QuitCloseWindow
    \/ QuitStop
    \/ \E clone \in Clones : QuitCallWhileBorrowed(clone)

SpecApp == InitApp /\ [][NextApp]_vars

----------------------------------------------------------------------------
(* Helpers of the property on quit() *)

\* the calls that did not log the "already borrowed" warning, i.e. borrowed the state
BorrowingCalls ==
    {c \in 1..Len(callers) : \A w \in 1..Len(warnings) : warnings[w] # c}

FirstBorrowingCall == CHOOSE c \in BorrowingCalls : \A d \in BorrowingCalls : c <= d

RequestCalls ==
    {close_requests[r].call : r \in 1..Len(close_requests)}
        \cup {stop_requests[r] : r \in 1..Len(stop_requests)}

QuitEffects == <<quitting, close_requests, stop_requests>>

\* what holds in every state
QuitOnceState ==
    /\ quitting <=> BorrowingCalls # {}
    /\ RequestCalls # {} => RequestCalls = {FirstBorrowingCall}
    /\ Len(stop_requests) <= 1
    /\ Len(close_requests) <= ns_windows
    /\ \A r, q \in 1..Len(close_requests) :
          r # q => close_requests[r].window # close_requests[q].window
    /\ (quitting /\ ~borrowed) =>
          /\ Len(stop_requests) = 1
          /\ Len(close_requests) = ns_windows

\* what holds of every step
QuitOnceStep ==
    /\ quitting => quitting'
    /\ (~quitting /\ quitting') =>
          /\ ~borrowed
          /\ Len(callers') = Len(callers) + 1
          /\ BorrowingCalls = {}
          /\ holder' = Len(callers')
    /\ (callers' # callers /\ quitting /\ ~borrowed) =>
          /\ UNCHANGED QuitEffects
          /\ UNCHANGED <<borrowed, warnings>>
    /\ (callers' # callers /\ borrowed) =>
          /\ UNCHANGED QuitEffects
          /\ UNCHANGED borrowed

(* C12. Application::quit is effective at most once: over any sequence of  *)
(* quit() calls on clones of one Application, quitting goes from false to  *)
(* true on the first call that can borrow the state and never returns to   *)
(* false; the window-close requests and the stop request are issued only   *)
(* by that call; every later call changes nothing; a call made while the   *)
(* state is already borrowed issues no request and leaves the flag.        *)
C12_QuitEffectiveOnce == [][QuitOnceStep]_vars /\ []QuitOnceState

\* three calls were made, from different clones: the first quit and was
\* called again while it held the borrow, and a call followed its return
C12_Witness ==
    /\ Len(callers) = 3
    /\ callers[1] # callers[2]
    /\ warnings = <<2>>
    /\ quitting /\ ~borrowed
    /\ ns_windows = 2
    /\ Len(close_requests) = 2
    /\ stop_requests = <<1>>

====
